---- MODULE Spec2Model ----
(***************************************************************************)
(* Declaration injection (lib/Sema/SemaInject.cpp).                        *)
(*                                                                         *)
(* The AST is an arena of declarations addressed by integer identity: the  *)
(* declarations of the translation unit being compiled are the entries of  *)
(* Ast (identities 1..NumSrc); every declaration created by an injection   *)
(* is an entry of the variable clones (identity NumSrc + index).  A        *)
(* declaration context is the identity of the declaration that is the      *)
(* context.  A body is the sequence of declaration references (DeclRefExpr)*)
(* it contains, in source order.                                           *)
(***************************************************************************)
EXTENDS Integers, Sequences, FiniteSets, TLC

Null == 0

\* Largest captured value; captured values are drawn from 1..MaxValue.
MaxValue == 2

\* Largest number of requests in one batch of injections.
MaxBatch == 3

Values == 1 .. MaxValue

(***************************************************************************)
(* The translation unit.                                                   *)
(***************************************************************************)
Decl(k, o, n, inst, df, b) ==
  [kind |-> k, owner |-> o, name |-> n, instance |-> inst, def |-> df, body |-> b]

Ast ==
  << Decl("TU",        0,  "",    FALSE, "none",    <<>>),                \* 1  translation unit
     Decl("Namespace", 1,  "N",   FALSE, "none",    <<>>),                \* 2  namespace N
     Decl("Record",    1,  "T",   FALSE, "none",    <<>>),                \* 3  class T
     Decl("Field",     3,  "b",   TRUE,  "none",    <<>>),                \* 4  T::b
     Decl("Function",  1,  "g",   FALSE, "defined", <<>>),                \* 5  function g
     Decl("Record",    1,  "S",   FALSE, "none",    <<>>),                \* 6  class S
     Decl("Field",     6,  "a",   TRUE,  "none",    <<14, 8>>),           \* 7  S::a = gv + b
     Decl("Field",     6,  "b",   TRUE,  "none",    <<>>),                \* 8  S::b
     Decl("Method",    6,  "f",   TRUE,  "defined",
          <<7, 8, 10, 11, 12, 9, 12, 14>>),                               \* 9  S::f
     Decl("Method",    6,  "sm",  FALSE, "none",    <<>>),                \* 10 static S::sm
     Decl("Method",    6,  "h",   TRUE,  "none",    <<>>),                \* 11 S::h
     Decl("Var",       9,  "x",   FALSE, "none",    <<>>),                \* 12 local x of S::f
     Decl("Function",  1,  "k",   FALSE, "defined", <<15>>),              \* 13 function k
     Decl("Var",       1,  "gv",  FALSE, "none",    <<>>),                \* 14 global gv
     Decl("Var",       13, "lv",  FALSE, "none",    <<14>>),              \* 15 local lv of k
     Decl("Fragment",  5,  "",    FALSE, "none",    <<>>),                \* 16 class fragment, captures n, m
     Decl("Var",       16, "n",   FALSE, "none",    <<>>),                \* 17 placeholder n
     Decl("Var",       16, "m",   FALSE, "none",    <<>>),                \* 18 placeholder m
     Decl("Record",    16, "",    FALSE, "none",    <<>>),                \* 19 content of 16
     Decl("Method",    19, "m1",  TRUE,  "defined", <<17, 21, 18, 17, 14>>), \* 20 method m1
     Decl("Field",     19, "m2",  TRUE,  "none",    <<18>>),              \* 21 field m2 = m
     Decl("Fragment",  5,  "",    FALSE, "none",    <<>>),                \* 22 class fragment, no capture
     Decl("Record",    22, "",    FALSE, "none",    <<>>),                \* 23 content of 22
     Decl("Field",     23, "e",   TRUE,  "none",    <<>>),                \* 24 field e (cannot be cloned)
     Decl("Field",     23, "c",   TRUE,  "none",    <<>>),                \* 25 field c
     Decl("Fragment",  5,  "",    FALSE, "none",    <<>>),                \* 26 namespace fragment, captures k
     Decl("Var",       26, "k",   FALSE, "none",    <<>>),                \* 27 placeholder k
     Decl("Namespace", 26, "",    FALSE, "none",    <<>>),                \* 28 content of 26
     Decl("Var",       28, "nv",  FALSE, "none",    <<27>>),              \* 29 variable nv = k
     Decl("Function",  28, "nf",  FALSE, "defined", <<29, 27>>),          \* 30 function nf
     Decl("Dtor",      6,  "~S",  TRUE,  "none",    <<>>),                \* 31 S::~S
     Decl("Method",    6,  "d",   TRUE,  "defaulted", <<>>),              \* 32 S::d = default
     Decl("Method",    6,  "r",   TRUE,  "deleted", <<>>),                \* 33 S::r = delete
     Decl("Metaclass", 1,  "B",   FALSE, "none",    <<>>),                \* 34 metaclass B : D
     Decl("Record",    34, "B",   FALSE, "none",    <<>>),                \* 35 definition of B
     Decl("TemplateTypeParm", 35, "prototype", FALSE, "none", <<>>),      \* 36 prototype of B
     Decl("Field",     35, "bf",  TRUE,  "none",    <<>>),                \* 37 B::bf
     Decl("Method",    35, "bm",  TRUE,  "defined", <<37, 36>>),          \* 38 B::bm
     Decl("Metaclass", 1,  "C",   FALSE, "none",    <<>>),                \* 39 metaclass C
     Decl("Record",    39, "C",   FALSE, "none",    <<>>),                \* 40 definition of C
     Decl("TemplateTypeParm", 40, "prototype", FALSE, "none", <<>>),      \* 41 prototype of C
     Decl("Field",     40, "cf",  TRUE,  "none",    <<>>),                \* 42 C::cf
     Decl("Field",     40, "ce",  TRUE,  "none",    <<>>),                \* 43 C::ce (cannot be cloned)
     Decl("Metaclass", 1,  "A",   FALSE, "none",    <<>>),                \* 44 metaclass A : B, C
     Decl("Record",    44, "A",   FALSE, "none",    <<>>),                \* 45 definition of A
     Decl("TemplateTypeParm", 45, "prototype", FALSE, "none", <<>>),      \* 46 prototype of A
     Decl("Field",     45, "af",  TRUE,  "none",    <<>>),                \* 47 A::af
     Decl("Method",    45, "am",  TRUE,  "defined", <<37, 47, 46, 52>>),  \* 48 A::am
     Decl("Metaclass", 1,  "D",   FALSE, "none",    <<>>),                \* 49 metaclass D
     Decl("Record",    49, "D",   FALSE, "none",    <<>>),                \* 50 definition of D
     Decl("TemplateTypeParm", 50, "prototype", FALSE, "none", <<>>),      \* 51 prototype of D
     Decl("Field",     50, "df",  TRUE,  "none",    <<>>),                \* 52 D::df
     Decl("ParmVar",   5,  "p",   FALSE, "none",    <<>>),                \* 53 parameter p of g
     Decl("Var",       5,  "u",   FALSE, "none",    <<>>),                \* 54 local u of g
     Decl("Var",       5,  "v",   FALSE, "none",    <<>>),                \* 55 local v of g
     Decl("Var",       5,  "w",   FALSE, "none",    <<>>),                \* 56 local w of g
     Decl("Record",    5,  "L",   FALSE, "none",    <<>>),                \* 57 local class L of g
     Decl("Var",       5,  "z",   FALSE, "none",    <<>>),                \* 58 local z of g
     Decl("Fragment",  5,  "",    FALSE, "none",    <<>>),                \* 59 namespace fragment, no capture
     Decl("Namespace", 59, "",    FALSE, "none",    <<>>),                \* 60 content of 59
     Decl("Var",       60, "ne",  FALSE, "none",    <<>>),                \* 61 variable ne (cannot be cloned)
     Decl("Var",       60, "nc",  FALSE, "none",    <<>>) >>              \* 62 variable nc

NumSrc == Len(Ast)

\* Declarations whose local transformation yields no declaration.
FailsClone == {24, 43, 61}

\* MetaclassDecl::getDefinition()
getDefinition(Meta) == CHOOSE Def \in 1 .. NumSrc : Ast[Def].owner = Meta

\* Def->bases(): the base metaclasses of a metaclass definition, as written.
Bases(Def) ==
  IF Def = 45 THEN <<34, 39>>
  ELSE IF Def = 35 THEN <<49>>
  ELSE <<>>

Metaclasses == {34, 39, 44, 49}

\* The fields of the class synthesized for a fragment expression, one per
\* capture, as their types.
FieldTypes(Fragment) ==
  IF Fragment = 16 THEN <<"int", "bool">>
  ELSE IF Fragment = 26 THEN <<"char">>
  ELSE <<>>

\* Var->hasInit(): the variables declared with an initializer.
hasInit(D) == D \in {14, 54, 55, 58}

\* Var->getType()
getType(D) ==
  IF D = 54 THEN "int" ELSE IF D = 55 THEN "bool" ELSE IF D = 58 THEN "char" ELSE "long"

\* The scopes of the parser (Scope): the enclosing scope, the declaration
\* context the scope is the scope of (Null for a block), and the declarations
\* made in it.  Function g is
\*   void g(int p) { int u = 0; { bool v = true; long w; class L {}; { char z = 'z'; } } }
Scopes ==
  << [parent |-> 0, entity |-> 1,    decls |-> <<14>>],          \* 1 translation unit
     [parent |-> 1, entity |-> 5,    decls |-> <<53, 54>>],      \* 2 body of g
     [parent |-> 2, entity |-> Null, decls |-> <<55, 56, 57>>],  \* 3 block in g
     [parent |-> 3, entity |-> Null, decls |-> <<58>>],          \* 4 block in the block
     [parent |-> 1, entity |-> 3,    decls |-> <<4>>],           \* 5 class T
     [parent |-> 1, entity |-> 2,    decls |-> <<>>] >>          \* 6 namespace N

\* The contexts the parser can be in when an injection is applied.
Contexts == {1, 2, 3, 5}

(***************************************************************************)
(* AST queries.  cl is the sequence of injected declarations.              *)
(***************************************************************************)
IsClone(D) == D > NumSrc

Node(cl, D) == IF IsClone(D) THEN cl[D - NumSrc] ELSE Ast[D]

KindOf(cl, D) == Node(cl, D).kind

OwnerOf(cl, D) == Node(cl, D).owner

NameOf(cl, D) == Node(cl, D).name

isFunctionOrMethod(cl, DC) == KindOf(cl, DC) \in {"Function", "Method", "Dtor"}

isRecord(cl, DC) == KindOf(cl, DC) = "Record"

isNamespace(cl, DC) == KindOf(cl, DC) = "Namespace"

isTranslationUnit(cl, DC) == KindOf(cl, DC) = "TU"

isFileContext(cl, DC) == isNamespace(cl, DC) \/ isTranslationUnit(cl, DC)

isDeclContext(D) ==
  Ast[D].kind \in {"TU", "Namespace", "Record", "Function", "Method", "Dtor", "Fragment"}

isCXXMethodDecl(cl, D) == KindOf(cl, D) \in {"Method", "Dtor"}

\* DeclContext::decls(): the declarations owned by DC, in declaration order.
DeclsOf(cl, DC) ==
  SelectSeq([D \in 1 .. NumSrc + Len(cl) |-> D], LAMBDA D : OwnerOf(cl, D) = DC)

\* DeclContext::lookup(Name): the declarations of DC named Name.
LookupName(cl, DC, Name) ==
  SelectSeq(DeclsOf(cl, DC), LAMBDA D : NameOf(cl, D) = Name)

\* The walk "while (DC && DC != SourceDC) DC = DC->getParent()" from DC.
RECURSIVE EnclosedBy(_, _)
EnclosedBy(DC, SourceDC) ==
  IF DC = Null THEN FALSE
  ELSE IF DC = SourceDC THEN TRUE
  ELSE EnclosedBy(Ast[DC].owner, SourceDC)

Put(f, k, v) == [x \in DOMAIN f \cup {k} |-> IF x = k THEN v ELSE f[x]]

NoMap == [x \in {} |-> Null]

(***************************************************************************)
(* Captures.                                                               *)
(***************************************************************************)
\* VarDecl::isLocalVarDeclOrParm
isLocalVarDeclOrParm(D) ==
  Ast[D].kind \in {"Var", "ParmVar"} /\ isFunctionOrMethod(<<>>, Ast[D].owner)

\* FindCapturesInScope
FindCapturesInScope(S, Vars) ==
  Vars \o SelectSeq(Scopes[S].decls,
                    LAMBDA D : /\ Ast[D].kind \in {"Var", "ParmVar"}
                               /\ isLocalVarDeclOrParm(D) /\ hasInit(D))

\* FindCaptures without the search of the scope the walk stops at.
RECURSIVE FindCapturesBelowFn(_, _, _)
FindCapturesBelowFn(S, Fn, Vars) ==
  IF S # Null /\ Scopes[S].entity # Fn
  THEN FindCapturesBelowFn(Scopes[S].parent, Fn, FindCapturesInScope(S, Vars))
  ELSE Vars

\* FindCaptures
RECURSIVE FindCaptures(_, _, _)
FindCaptures(S, Fn, Vars) ==
  IF S # Null /\ Scopes[S].entity # Fn
  THEN FindCaptures(Scopes[S].parent, Fn, FindCapturesInScope(S, Vars))
  ELSE IF S # Null THEN FindCapturesInScope(S, Vars)
  ELSE Vars

\* ReferenceCaptures: each variable becomes an lvalue-to-rvalue conversion of
\* a reference to it.
ReferenceCaptures(Vars) ==
  [I \in DOMAIN Vars |->
     [node |-> "ImplicitCastExpr", cast |-> "CK_LValueToRValue", type |-> getType(Vars[I]),
      sub |-> [node |-> "DeclRefExpr", decl |-> Vars[I], type |-> getType(Vars[I])]]]

\* GetVariableFromCapture
GetVariableFromCapture(E) == E.sub.decl

\* A declaration made by Sema, not transformed from another one.
Synthesized(kind, owner, name) ==
  [orig |-> Null, kind |-> kind, owner |-> owner, name |-> name,
   instance |-> FALSE, def |-> "none", body |-> <<>>, access |-> 0,
   constexpr |-> FALSE, virtual |-> FALSE, pure |-> FALSE, checked |-> FALSE]

\* CreatePlaceholder: a constexpr variable of the fragment with the identifier
\* of the captured variable.
CreatePlaceholder(cl, Frag, E) ==
  Append(cl, [Synthesized("Var", Frag, Ast[GetVariableFromCapture(E)].name)
                EXCEPT !.constexpr = TRUE])

\* CreatePlaceholders with the captures taken last to first.
RECURSIVE CreatePlaceholdersBackwards(_, _, _)
CreatePlaceholdersBackwards(cl, Frag, Captures) ==
  IF Captures = <<>> THEN cl
  ELSE CreatePlaceholdersBackwards(
         CreatePlaceholder(cl, Frag, Captures[Len(Captures)]), Frag,
         SubSeq(Captures, 1, Len(Captures) - 1))

\* CreatePlaceholders
RECURSIVE CreatePlaceholders(_, _, _)
CreatePlaceholders(cl, Frag, Captures) ==
  IF Captures = <<>> THEN cl
  ELSE CreatePlaceholders(CreatePlaceholder(cl, Frag, Head(Captures)), Frag,
                          Tail(Captures))

\* BuildCXXFragmentExpr, "Create a field for each capture": the fields of
\* Class, Class being the declaration made just before them.
FragmentFields(Class, Captures) ==
  [I \in DOMAIN Captures |->
     [decl |-> Class + I,
      name |-> "__captured_" \o Ast[GetVariableFromCapture(Captures[I])].name,
      type |-> getType(GetVariableFromCapture(Captures[I]))]]

\* BuildCXXFragmentExpr, the parameters of the constructor.
FragmentParms(Captures) ==
  [I \in DOMAIN Captures |->
     [name |-> "__parm_" \o Ast[GetVariableFromCapture(Captures[I])].name,
      type |-> Captures[I].type, index |-> I - 1]]

\* BuildCXXFragmentExpr, "Build constructor initializers" with the base
\* initializer last.
FragmentInitsBaseLast(BaseTy, Fields, Parms) ==
  [I \in 1 .. Len(Fields) + 1 |->
     IF I = Len(Fields) + 1 THEN [init |-> "base", target |-> BaseTy, arg |-> <<>>]
     ELSE [init |-> "member", target |-> Fields[I].decl, arg |-> <<Parms[I].name>>]]

\* BuildCXXFragmentExpr, "Build constructor initializers": Inits[0] is the
\* base initializer, Inits[I + 1] initializes Fields[I] from Parms[I].
FragmentInits(BaseTy, Fields, Parms) ==
  [I \in 1 .. Len(Fields) + 1 |->
     IF I = 1 THEN [init |-> "base", target |-> BaseTy, arg |-> <<>>]
     ELSE [init |-> "member", target |-> Fields[I - 1].decl, arg |-> <<Parms[I - 1].name>>]]

\* BuildCXXFragmentExpr, "Build an expression that initializes the fragment
\* object".
FragmentInit(Ctor, ClassTy, Captures) ==
  IF Len(Captures) = 1
  THEN [node |-> "CXXFunctionalCastExpr", type |-> ClassTy,
        sub |-> [node |-> "CXXConstructExpr", ctor |-> Ctor, args |-> Captures]]
  ELSE [node |-> "CXXTemporaryObjectExpr", type |-> ClassTy, ctor |-> Ctor,
        args |-> Captures]

\* The declarations BuildCXXFragmentExpr makes: the class, whose context is
\* CurContext, its fields and its constructor.
FragmentClassDecls(Owner, Class, Fields) ==
  <<Synthesized("Record", Owner, "")>>
    \o [I \in DOMAIN Fields |->
          [Synthesized("Field", Class, Fields[I].name) EXCEPT !.access = 1,
                                                              !.instance = TRUE]]
    \o <<[Synthesized("Ctor", Class, "") EXCEPT !.access = 1, !.constexpr = TRUE,
                                                !.def = "defined", !.instance = TRUE]>>

\* The class BuildCXXFragmentExpr synthesizes, Class its declaration, and the
\* expression it returns.
FragmentExpr(Class, Content, Captures, FD) ==
  [node |-> "CXXFragmentExpr", type |-> Class, Captures |-> Captures, FD |-> FD,
   Class |-> [decl |-> Class,
              Bases |-> <<[refl |-> Content]>>,
              Fields |-> FragmentFields(Class, Captures),
              Ctor |-> [decl |-> Class + Len(Captures) + 1,
                        ArgTypes |-> [I \in DOMAIN Captures |-> Captures[I].type],
                        Parms |-> FragmentParms(Captures),
                        Inits |-> FragmentInits([refl |-> Content],
                                                FragmentFields(Class, Captures),
                                                FragmentParms(Captures))]],
   Init |-> FragmentInit(Class + Len(Captures) + 1, Class, Captures)]

\* The declaration context a scope is in.
RECURSIVE getEntityOf(_)
getEntityOf(S) ==
  IF Scopes[S].entity # Null THEN Scopes[S].entity ELSE getEntityOf(Scopes[S].parent)

(***************************************************************************)
(* Sema and the SourceCodeInjector.  The operators below thread one record *)
(* s: the fields CurContext, clones, diags, invalid, consumer, evalDepth   *)
(* are Sema's and the AST's state; crashed records that the compiler       *)
(* aborted; ub is the outcome this build takes where the code has          *)
(* undefined behaviour; the remaining fields are the members of the        *)
(* SourceCodeInjector in use (regs and resol are the history of its        *)
(* registrations and reference resolutions).  An operator that yields a    *)
(* value returns [s |-> the state after, r |-> the value].                 *)
(***************************************************************************)
UBOutcomes == {"trap", "oldest", "newest"}

Diag(s, id, sel) == [s EXCEPT !.diags = Append(@, [id |-> id, sel |-> sel])]

\* Sema::DescribeInjectionTarget
DescribeInjectionTarget(cl, DC) ==
  IF isFunctionOrMethod(cl, DC) THEN 0
  ELSE IF isRecord(cl, DC) THEN 1
  ELSE IF isNamespace(cl, DC) THEN 2
  ELSE 3

\* InvalidInjection: reports err_invalid_injection << SK << target.
InvalidInjection(s, SK, DC) ==
  Diag(s, "err_invalid_injection", <<SK, DescribeInjectionTarget(s.clones, DC)>>)

\* SourceCodeInjector(SemaRef, Src, Dst)
SourceCodeInjector(s, Src, Dst) ==
  [s EXCEPT !.SourceDC = Src, !.DestDC = Dst,
            !.ReplacePlaceholders = FALSE,
            !.PlaceholderValues = NoMap,
            !.TransformedLocalDecls = NoMap,
            !.regs = <<>>, !.resol = <<>>]

\* TreeTransform::transformedLocalDecl(Old, New): TransformedLocalDecls[Old] = New.
transformedLocalDecl(s, Old, New) ==
  [s EXCEPT !.TransformedLocalDecls = Put(@, Old, New),
            !.regs = Append(@, [key |-> Old,
                                old |-> IF Old \in DOMAIN s.TransformedLocalDecls
                                        THEN s.TransformedLocalDecls[Old] ELSE Null,
                                new |-> New])]

\* SourceCodeInjector::AddSubstitution
AddSubstitution(s, From, To) == transformedLocalDecl(s, From, To)

\* SourceCodeInjector::AddReplacements, FieldIter not advanced.
AddReplacementsSameField(s, Fragment, ReflectionFields, Captures) ==
  LET Places == DeclsOf(s.clones, Fragment)
  IN [s EXCEPT !.PlaceholderValues =
                   [P \in {Places[I] : I \in 1 .. Len(Captures)} |->
                      LET I == CHOOSE J \in 1 .. Len(Captures) : Places[J] = P
                      IN [Type |-> ReflectionFields[1], Value |-> Captures[I]]],
               !.ReplacePlaceholders = TRUE]

\* SourceCodeInjector::AddReplacements: the I-th declaration of the fragment
\* is given the type of the I-th field and the I-th captured value.
AddReplacements(s, Fragment, ReflectionFields, Captures) ==
  LET Places == DeclsOf(s.clones, Fragment)
  IN [s EXCEPT !.PlaceholderValues =
                   [P \in {Places[I] : I \in 1 .. Len(Captures)} |->
                      LET I == CHOOSE J \in 1 .. Len(Captures) : Places[J] = P
                      IN [Type |-> ReflectionFields[I], Value |-> Captures[I]]],
               !.ReplacePlaceholders = TRUE]

RefNode(D) == [node |-> "ref", decl |-> D, type |-> "", value |-> 0]

\* CXXConstantExpr(OpaqueValueExpr(Type, E), Value), E a reference to D.
ConstNode(D, Type, Value) == [node |-> "const", decl |-> D, type |-> Type, value |-> Value]

RECURSIVE TransformDecl(_, _)
RECURSIVE TransformLocalDecl(_, _, _)
RECURSIVE TransformBody(_, _, _)

\* SourceCodeInjector::LookupDecl
LookupDecl(s, D) ==
  LET Lookup == LookupName(s.clones, s.DestDC, Ast[D].name)
      BadCapture == IF Ast[D].kind \in {"Method", "Dtor"}
                    THEN (IF ~Ast[D].instance THEN 0 ELSE -1)
                    ELSE IF Ast[D].kind = "Field" THEN 1 ELSE -1
  IN IF Lookup = <<>>
     THEN [s |-> IF BadCapture >= 0
                 THEN Diag(s, "err_capture_non_static", <<BadCapture>>) ELSE s,
           r |-> D]
     ELSE IF Len(Lookup) > 1
     THEN \* llvm_unreachable("Injection requires overload resolution")
          IF s.ub = "trap" THEN [s |-> [s EXCEPT !.crashed = TRUE], r |-> Null]
          ELSE IF s.ub = "oldest" THEN [s |-> s, r |-> Lookup[1]]
          ELSE [s |-> s, r |-> Lookup[Len(Lookup)]]
     ELSE [s |-> s, r |-> Lookup[1]]

\* The record of one call of TransformDecl: the declaration, its remap entry
\* and the number of injected declarations before the call, and the result.
Resolved(s0, D, t) ==
  [s |-> [t.s EXCEPT !.resol =
            Append(@, [d |-> D,
                       known |-> IF D \in DOMAIN s0.TransformedLocalDecls
                                 THEN s0.TransformedLocalDecls[D] ELSE Null,
                       n |-> Len(s0.clones),
                       r |-> t.r])],
   r |-> t.r]

\* SourceCodeInjector::TransformDecl with the context search made before the
\* search for a previous transformation.
TransformDeclContextFirst(s, D) ==
  IF D = Null \/ s.crashed THEN [s |-> s, r |-> Null]
  ELSE Resolved(s, D,
    IF s.SourceDC # Null /\ EnclosedBy(Ast[D].owner, s.SourceDC)
    THEN TransformLocalDecl(s, D, FALSE)
    ELSE IF D \in DOMAIN s.TransformedLocalDecls
    THEN [s |-> s, r |-> s.TransformedLocalDecls[D]]
    ELSE IF s.SourceDC # Null /\ Ast[s.SourceDC].owner = Ast[D].owner
    THEN LookupDecl(s, D)
    ELSE [s |-> s, r |-> D])

\* SourceCodeInjector::TransformDecl
TransformDecl(s, D) ==
  IF D = Null \/ s.crashed THEN [s |-> s, r |-> Null]
  ELSE Resolved(s, D,
    IF D \in DOMAIN s.TransformedLocalDecls
    THEN [s |-> s, r |-> s.TransformedLocalDecls[D]]
    ELSE IF s.SourceDC # Null /\ EnclosedBy(Ast[D].owner, s.SourceDC)
    THEN TransformLocalDecl(s, D, FALSE)
    ELSE IF s.SourceDC # Null /\ Ast[s.SourceDC].owner = Ast[D].owner
    THEN LookupDecl(s, D)
    ELSE [s |-> s, r |-> D])

\* TreeTransform::TransformDeclRefExpr: the reference is rebuilt on the
\* transformed declaration.
Rebuilt(t) == [s |-> t.s, r |-> RefNode(t.r)]

BaseTransformDeclRefExpr(s, E) == Rebuilt(TransformDecl(s, E))

\* SourceCodeInjector::TransformDeclRefExpr, E a reference to declaration E.
TransformDeclRefExpr(s, E) ==
  IF s.ReplacePlaceholders /\ E \in DOMAIN s.PlaceholderValues
  THEN [s |-> s, r |-> ConstNode(E, s.PlaceholderValues[E].Type,
                                 s.PlaceholderValues[E].Value)]
  ELSE BaseTransformDeclRefExpr(s, E)

\* The references of a body are transformed in order and appended to the
\* body of the injected declaration R.
Rebuild(t, R) == [t.s EXCEPT !.clones[R - NumSrc].body = Append(@, t.r)]

TransformBody(s, R, refs) ==
  IF refs = <<>> \/ s.crashed THEN s
  ELSE TransformBody(Rebuild(TransformDeclRefExpr(s, Head(refs)), R), R, Tail(refs))

\* TreeTransform::TransformLocalDecl: D is rebuilt in the transformed owner,
\* registered, and its body transformed.  AsStatic is the static rewrite of a
\* member function.
TransformLocalDecl(s, D, AsStatic) ==
  IF s.crashed \/ D \in FailsClone THEN [s |-> s, r |-> Null]
  ELSE LET R == NumSrc + Len(s.clones) + 1
           Owner == IF Ast[D].owner \in DOMAIN s.TransformedLocalDecls
                    THEN s.TransformedLocalDecls[Ast[D].owner]
                    ELSE s.CurContext
           New == [orig |-> D, kind |-> Ast[D].kind, owner |-> Owner,
                   name |-> Ast[D].name,
                   instance |-> IF AsStatic THEN FALSE ELSE Ast[D].instance,
                   def |-> Ast[D].def, body |-> <<>>,
                   access |-> 0, constexpr |-> FALSE, virtual |-> FALSE,
                   pure |-> FALSE, checked |-> FALSE]
           s1 == transformedLocalDecl([s EXCEPT !.clones = Append(@, New)], D, R)
       IN [s |-> TransformBody(s1, R, Ast[D].body), r |-> R]

\* SourceCodeInjector::InjectDecl
InjectDecl(s, D) == TransformLocalDecl(s, D, FALSE)

\* SourceCodeInjector::RewriteAsStaticMemberFunction
RewriteAsStaticMemberFunction(s, D) == TransformLocalDecl(s, D, TRUE)

\* RewriteAsStaticMemberVariable after TransformInitializer: the initializer
\* is attached to R, or R is marked invalid when it is invalid.
AddInitializerToDecl(s, R, SavedContext) ==
  IF \E i \in DOMAIN s.clones[R - NumSrc].body :
        s.clones[R - NumSrc].body[i] = RefNode(Null)
  THEN [s |-> [s EXCEPT !.CurContext = SavedContext, !.invalid = @ \cup {R}], r |-> R]
  ELSE [s |-> [s EXCEPT !.CurContext = SavedContext], r |-> R]

\* SourceCodeInjector::RewriteAsStaticMemberVariable
RewriteAsStaticMemberVariable(s, D) ==
  IF D \in FailsClone THEN [s |-> s, r |-> Null] ELSE
  LET R == NumSrc + Len(s.clones) + 1
      Owner == s.CurContext
      New == [orig |-> D, kind |-> "Var", owner |-> Owner, name |-> Ast[D].name,
              instance |-> FALSE, def |-> Ast[D].def, body |-> <<>>,
              access |-> 0, constexpr |-> FALSE, virtual |-> FALSE,
              pure |-> FALSE, checked |-> FALSE]
      s1 == transformedLocalDecl([s EXCEPT !.clones = Append(@, New)], D, R)
  IN IF Ast[D].body # <<>>
     THEN \* PushExpressionEvaluationContext; ContextRAII around the transform
          AddInitializerToDecl(
            TransformBody([s1 EXCEPT !.evalDepth = @ + 1, !.CurContext = Owner],
                          R, Ast[D].body),
            R, s.CurContext)
     ELSE [s |-> s1, r |-> R]

\* RewriteAsStaticMember making the normal clone.
RewriteAsStaticMemberNormalClone(s, D) == InjectDecl(s, D)

\* SourceCodeInjector::RewriteAsStaticMember
RewriteAsStaticMember(s, D) ==
  IF Ast[D].kind \in {"Method", "Dtor"} THEN RewriteAsStaticMemberFunction(s, D)
  ELSE IF Ast[D].kind = "Field" THEN RewriteAsStaticMemberVariable(s, D)
  ELSE InjectDecl(s, D)

(***************************************************************************)
(* The injection driver.  An injection request (Sema::InjectionInfo, or    *)
(* the evaluated operand of an injection declaration) is the record        *)
(* [Injection, Captures, mods]: the reflected declaration (Null when the   *)
(* reflection is not a declaration), the fields of the reflection value    *)
(* and the modification traits.                                            *)
(***************************************************************************)
NoMods == [access |-> 0, storage |-> 0, constexpr |-> FALSE, virtual |-> FALSE, pure |-> FALSE]

StaticMods == [NoMods EXCEPT !.storage = 1]

\* Class->isFragment(): the reflected declaration is the content of a fragment.
isFragment(II) == Ast[Ast[II.Injection].owner].kind = "Fragment"

\* The target check of InjectFragment without its class branch.
InjectFragmentTargetNamespaceOnly(cl, Injection, CurrentDC) ==
  IF Ast[Injection].kind = "Namespace" /\ ~isFileContext(cl, CurrentDC) THEN 0
  ELSE -1

\* InjectFragment, "the kind of fragment must match the kind of context":
\* the selector reported on a mismatch, -1 when the kinds match.
InjectFragmentTarget(cl, Injection, CurrentDC) ==
  IF Ast[Injection].kind = "Record" /\ ~isRecord(cl, CurrentDC) THEN 1
  ELSE IF Ast[Injection].kind = "Namespace" /\ ~isFileContext(cl, CurrentDC) THEN 0
  ELSE -1

\* The body of the loop of InjectFragment, t the result of InjectDecl.
Member(t, Decls, Injectee, IsNamespace) ==
  [s |-> [t.s EXCEPT !.invalid = IF t.r = Null THEN @ \cup {Injectee} ELSE @,
                     !.consumer = IF IsNamespace THEN Append(@, t.r) ELSE @],
   Decls |-> Append(Decls, t.r)]

\* The loop of InjectFragment left at the first member whose clone fails.
RECURSIVE InjectMembersUntilFailure(_, _, _, _)
InjectMembersUntilFailure(acc, Injectee, Members, IsNamespace) ==
  IF Members = <<>> \/ acc.s.crashed \/ \E i \in DOMAIN acc.Decls : acc.Decls[i] = Null
  THEN acc
  ELSE InjectMembersUntilFailure(Member(InjectDecl(acc.s, Head(Members)), acc.Decls,
                                        Injectee, IsNamespace),
                                 Injectee, Tail(Members), IsNamespace)

\* The loop of InjectFragment over InjectionDC->decls().
RECURSIVE InjectMembers(_, _, _, _)
InjectMembers(acc, Injectee, Members, IsNamespace) ==
  IF Members = <<>> \/ acc.s.crashed THEN acc
  ELSE InjectMembers(Member(InjectDecl(acc.s, Head(Members)), acc.Decls,
                            Injectee, IsNamespace),
                     Injectee, Tail(Members), IsNamespace)

\* The end of InjectFragment: return Injectee->isInvalidDecl().
Injected(acc, Injectee) ==
  [s |-> acc.s, r |-> Injectee \in acc.s.invalid, Decls |-> acc.Decls]

\* InjectFragment
InjectFragment(s, II) ==
  LET Injection == II.Injection
      InjectionDC == Injection
      CurrentDC == s.CurContext
      SK == InjectFragmentTarget(s.clones, Injection, CurrentDC)
  IN IF SK >= 0
     THEN [s |-> InvalidInjection(s, SK, CurrentDC), r |-> FALSE, Decls |-> <<>>]
     ELSE LET Injectee == CurrentDC
              Captures == II.Captures
              s1 == SourceCodeInjector(s, InjectionDC, CurrentDC)
              s2 == AddSubstitution(s1, Injection, Injectee)
              s3 == AddReplacements(s2, Ast[Injection].owner,
                                    FieldTypes(Ast[Injection].owner), Captures)
          IN Injected(InjectMembers([s |-> s3, Decls |-> <<>>], Injectee,
                                    DeclsOf(s.clones, InjectionDC),
                                    Ast[Injection].kind = "Namespace"),
                      Injectee)

\* isClassMemberDecl
isClassMemberDecl(D) == Ast[D].kind \in {"Field", "Method", "Dtor"}

\* CopyDeclaration, "the kind of fragment must match the kind of context":
\* the selector reported on a mismatch, -1 when the declaration is accepted.
CopyDeclarationTarget(cl, InjectionDC, CurrentDC) ==
  IF isRecord(cl, InjectionDC) /\ ~isRecord(cl, CurrentDC) THEN 1
  ELSE IF isFileContext(cl, InjectionDC) /\ ~isFileContext(cl, CurrentDC) THEN 0
  ELSE -1

SetClone(s, R, field, v) == [s EXCEPT !.clones[R - NumSrc] = [@ EXCEPT ![field] = v]]

\* A trait is applied, leaving the state s, or refused with a diagnostic.
Applied(s) == [s |-> s, ok |-> TRUE]

Refused(s) == [s |-> s, ok |-> FALSE]

\* CopyDeclaration, "Update access specifiers".
AccessTrait(s, Result, Traits) ==
  IF Traits.access = 0 THEN Applied(s)
  ELSE IF ~isRecord(s.clones, OwnerOf(s.clones, Result))
  THEN Refused(Diag(s, "err_modifies_mem_spec_of_non_member", <<0>>))
  ELSE Applied(SetClone(s, Result, "access", Traits.access))

\* CopyDeclaration, "if (Constexpr)"; a is the outcome of the access trait.
ConstexprTrait(a, Result, Traits) ==
  IF ~a.ok \/ ~Traits.constexpr THEN a
  ELSE IF KindOf(a.s.clones, Result) = "Var"
  THEN Applied(SetClone(SetClone(a.s, Result, "constexpr", TRUE), Result, "checked", TRUE))
  ELSE IF KindOf(a.s.clones, Result) = "Dtor"
  THEN Refused(Diag(a.s, "err_declration_cannot_be_made_constexpr", <<>>))
  ELSE IF KindOf(a.s.clones, Result) \in {"Function", "Method"}
  THEN \* Var->setConstexpr(true) with Var null
       IF a.s.ub = "trap" THEN Refused([a.s EXCEPT !.crashed = TRUE])
       ELSE Applied(SetClone(a.s, Result, "checked", TRUE))
  ELSE Refused(Diag(a.s, "err_virtual_non_function", <<>>))

\* CopyDeclaration, "int Err": 0 when Method can be made pure virtual.
PureVirtualError(cl, Method) ==
  IF Node(cl, Method).def = "defaulted" THEN 2
  ELSE IF Node(cl, Method).def = "deleted" THEN 3
  ELSE IF Node(cl, Method).def = "defined" THEN 1
  ELSE 0

\* CopyDeclaration, "if (Pure)"; Method has been made virtual in s.
PureTrait(s, Method, Traits) ==
  IF ~Traits.pure THEN Applied(s)
  ELSE IF PureVirtualError(s.clones, Method) # 0
  THEN Refused(Diag(s, "err_cannot_make_pure_virtual",
                    <<PureVirtualError(s.clones, Method) - 1>>))
  ELSE Applied(SetClone(s, Method, "pure", TRUE))

\* CopyDeclaration, "if (Virtual)"; c is the outcome of the constexpr trait.
VirtualTrait(c, Result, Traits) ==
  IF ~c.ok \/ ~Traits.virtual THEN c
  ELSE IF ~isCXXMethodDecl(c.s.clones, Result)
  THEN Refused(Diag(c.s, "err_virtual_non_function", <<>>))
  ELSE PureTrait(SetClone(c.s, Result, "virtual", TRUE), Result, Traits)

\* The end of CopyDeclaration: a refused trait returns false, otherwise
\* Decls.push_back(Result); return Injectee->isInvalidDecl().
Modified(v, Injectee, Result) ==
  IF ~v.ok THEN [s |-> v.s, r |-> FALSE, Decls |-> <<>>]
  ELSE [s |-> v.s, r |-> Injectee \in v.s.invalid, Decls |-> <<Result>>]

\* The traits applied in the order constexpr, access, virtual, pure.
ApplyTraitsConstexprFirst(s, Injectee, Result, Traits) ==
  LET c == ConstexprTrait(Applied(s), Result, Traits)
  IN Modified(VirtualTrait(IF ~c.ok THEN c ELSE AccessTrait(c.s, Result, Traits),
                           Result, Traits),
              Injectee, Result)

\* CopyDeclaration from "Update access specifiers" to its end: the traits are
\* applied to Result in the order access, constexpr, virtual, pure.
ApplyTraits(s, Injectee, Result, Traits) ==
  Modified(VirtualTrait(ConstexprTrait(AccessTrait(s, Result, Traits), Result, Traits),
                        Result, Traits),
           Injectee, Result)

\* CopyDeclaration after the declaration is built, t the result of the build.
Copied(t, Injectee, Traits) ==
  IF t.s.crashed THEN [s |-> t.s, r |-> FALSE, Decls |-> <<>>]
  ELSE IF t.r = Null
  THEN [s |-> [t.s EXCEPT !.invalid = @ \cup {Injectee}], r |-> FALSE, Decls |-> <<>>]
  ELSE ApplyTraits(t.s, Injectee, t.r, Traits)

\* CopyDeclaration
CopyDeclaration(s, II) ==
  LET Injection == II.Injection
      InjectionDC == Ast[Injection].owner
      CurrentDC == s.CurContext
      SK == CopyDeclarationTarget(s.clones, InjectionDC, CurrentDC)
  IN IF SK >= 0
     THEN [s |-> InvalidInjection(s, SK, CurrentDC), r |-> FALSE, Decls |-> <<>>]
     ELSE LET Injectee == CurrentDC
              SourceDC == IF isDeclContext(Injection) THEN Injection ELSE Null
              s1 == SourceCodeInjector(s, SourceDC, CurrentDC)
              s2 == AddSubstitution(s1, InjectionDC, Injectee)
              Traits == II.mods
          IN Copied(IF isClassMemberDecl(Injection) /\ Traits.storage = 1
                    THEN RewriteAsStaticMember(s2, Injection)
                    ELSE InjectDecl(s2, Injection),
                    Injectee, Traits)

\* What a call of ApplyInjection did: the request, the function it was routed
\* to, the result and the output list, the extent of the injected declarations
\* and of the diagnostics before and after, and the history of its injector.
Did(s, II, t) ==
  [s |-> t.s, r |-> t.r, Decls |-> t.Decls,
   did |-> [II |-> II,
            fn |-> IF II.Injection = Null THEN "none"
                   ELSE IF isFragment(II) THEN "InjectFragment"
                   ELSE "CopyDeclaration",
            r |-> t.r, Decls |-> t.Decls,
            c0 |-> Len(s.clones), c1 |-> Len(t.s.clones),
            g0 |-> Len(s.diags), g1 |-> Len(t.s.diags),
            inv0 |-> s.invalid, inv1 |-> t.s.invalid,
            map |-> t.s.TransformedLocalDecls,
            regs |-> t.s.regs, resol |-> t.s.resol]]

\* The dispatch of ApplyInjection; s has no injector of an earlier call.
Dispatch(s, II) ==
  IF II.Injection = Null
  THEN [s |-> Diag(s, "err_reflection_not_a_decl", <<>>), r |-> FALSE, Decls |-> <<>>]
  ELSE IF isFragment(II) THEN InjectFragment(s, II)
  ELSE CopyDeclaration(s, II)

\* ApplyInjection
ApplyInjection(s, II) == Did(s, II, Dispatch(SourceCodeInjector(s, Null, Null), II))

\* Ok &= r, and the history of the calls made.
Accumulate(acc, t) ==
  [s |-> t.s, Ok |-> acc.Ok /\ t.r, attempts |-> Append(acc.attempts, t.did)]

\* The body of the loop of ApplySourceCodeModifications where the call is
\* skipped once Ok is false (Ok = Ok && ApplyInjection(...)).
NextInjectionShortCircuit(acc, II) ==
  IF ~acc.Ok THEN acc ELSE Accumulate(acc, ApplyInjection(acc.s, II))

\* The body of the loop of ApplySourceCodeModifications:
\* Ok &= ApplyInjection(*this, POI, II).
NextInjection(acc, II) == Accumulate(acc, ApplyInjection(acc.s, II))

\* Sema::ApplySourceCodeModifications
RECURSIVE ApplyEach(_, _)
ApplyEach(acc, Injections) ==
  IF Injections = <<>> \/ acc.s.crashed THEN acc
  ELSE ApplyEach(NextInjection(acc, Head(Injections)), Tail(Injections))

\* The body of the loop of ApplyMetaclass, t the result of TransformLocalDecl.
TransformedMember(t, Final) ==
  [t.s EXCEPT !.invalid = IF t.r = Null THEN @ \cup {Final} ELSE @]

\* The loop of ApplyMetaclass over Def->decls().
RECURSIVE TransformMembers(_, _, _)
TransformMembers(s, Members, Final) ==
  IF Members = <<>> \/ s.crashed THEN s
  ELSE TransformMembers(TransformedMember(TransformLocalDecl(s, Head(Members), FALSE),
                                          Final),
                        Tail(Members), Final)

\* The end of the scope of SavedContext.
RestoreContext(s, SavedContext) == [s EXCEPT !.CurContext = SavedContext]

\* ApplyMetaclass after the loop over the bases.
InjectMetaclass(s, Def, ProtoArg, Final) ==
  LET ProtoParm == Head(DeclsOf(s.clones, Def))
      s1 == SourceCodeInjector([s EXCEPT !.CurContext = Final], Def, Null)
      s2 == AddSubstitution(s1, Def, Final)
      s3 == AddSubstitution(s2, ProtoParm, ProtoArg)
  IN RestoreContext(
       TransformMembers(s3, SelectSeq(DeclsOf(s.clones, Def), LAMBDA D : D # ProtoParm),
                        Final),
       s.CurContext)

RECURSIVE ApplyMetaclassInto(_, _, _, _)
RECURSIVE ApplyBases(_, _, _, _)

\* ApplyMetaclass injecting the members of the metaclass before its bases.
ApplyMetaclassOwnFirst(s, Meta, ProtoArg, Final) ==
  ApplyBases(InjectMetaclass(s, getDefinition(Meta), ProtoArg, Final),
             Bases(getDefinition(Meta)), ProtoArg, Final)

\* Sema::ApplyMetaclass(Meta, ProtoArg, Final, Fields)
ApplyMetaclassInto(s, Meta, ProtoArg, Final) ==
  InjectMetaclass(ApplyBases(s, Bases(getDefinition(Meta)), ProtoArg, Final),
                  getDefinition(Meta), ProtoArg, Final)

\* The loop of ApplyMetaclass over Def->bases().
ApplyBases(s, Bs, ProtoArg, Final) ==
  IF Bs = <<>> THEN s
  ELSE ApplyBases(ApplyMetaclassInto(s, Head(Bs), ProtoArg, Final),
                  Tail(Bs), ProtoArg, Final)

(***************************************************************************)
(* The compiler state.                                                     *)
(***************************************************************************)
VARIABLES
  CurContext,  \* Sema::CurContext
  clones,      \* the declarations created by injection, in creation order
  diags,       \* the diagnostics reported, in order
  invalid,     \* the declarations marked invalid (setInvalidDecl)
  consumer,    \* the declarations handed to Consumer.HandleTopLevelDecl
  evalDepth,   \* depth of the expression evaluation context stack
  crashed,     \* the compiler aborted
  content,     \* CXXFragmentDecl::getContent() of the fragments made
  last         \* the call made into Sema, its arguments and its result

vars == <<CurContext, clones, diags, invalid, consumer, evalDepth, crashed, content, last>>

\* Sema as the operators above see it, with no injector constructed.
Sema(ub) ==
  [CurContext |-> CurContext, clones |-> clones, diags |-> diags,
   invalid |-> invalid, consumer |-> consumer, evalDepth |-> evalDepth,
   crashed |-> crashed, ub |-> ub,
   SourceDC |-> Null, DestDC |-> Null, ReplacePlaceholders |-> FALSE,
   PlaceholderValues |-> NoMap, TransformedLocalDecls |-> NoMap,
   regs |-> <<>>, resol |-> <<>>]

Becomes(s) ==
  /\ CurContext' = s.CurContext
  /\ clones' = s.clones
  /\ diags' = s.diags
  /\ invalid' = s.invalid
  /\ consumer' = s.consumer
  /\ evalDepth' = s.evalDepth
  /\ crashed' = s.crashed
  /\ content' = content

Call(op, args, attempts, Ok, group) ==
  [op |-> op, args |-> args, attempts |-> attempts, Ok |-> Ok, group |-> group]

\* The requests made of this translation unit.
FragmentRequests ==
  {[Injection |-> C, Captures |-> V, mods |-> NoMods] :
     C \in {19}, V \in [1 .. 2 -> Values]}
  \cup {[Injection |-> C, Captures |-> <<>>, mods |-> NoMods] : C \in {23, 60}}
  \cup {[Injection |-> C, Captures |-> V, mods |-> NoMods] :
     C \in {28}, V \in [1 .. 1 -> Values]}

DeclRequests ==
  {[Injection |-> 9,  Captures |-> <<>>, mods |-> NoMods],
   [Injection |-> 7,  Captures |-> <<>>, mods |-> NoMods],
   [Injection |-> 7,  Captures |-> <<>>, mods |-> StaticMods],
   [Injection |-> 14, Captures |-> <<>>, mods |-> NoMods],
   [Injection |-> 15, Captures |-> <<>>, mods |-> NoMods],
   [Injection |-> Null, Captures |-> <<>>, mods |-> NoMods]}

\* The modification traits of a reflection: access_kind (none, public,
\* private, protected), storage_kind (none, static) and the three flags.
Mods ==
  [access : 0 .. 3, storage : 0 .. 1, constexpr : BOOLEAN, virtual : BOOLEAN,
   pure : BOOLEAN]

\* The declarations reflected with modification traits.
ModifiedDecls == {7, 9, 11, 14, 31, 32, 33}

ModifiedRequests ==
  {[Injection |-> D, Captures |-> <<>>, mods |-> M] : D \in ModifiedDecls, M \in Mods}

Requests == FragmentRequests \cup DeclRequests \cup ModifiedRequests

\* The requests a batch of injections is made of.
BatchRequests ==
  {II \in FragmentRequests \cup DeclRequests : II.Injection \in {19, 23, 28, 9, 14}}

\* The sequences over S of length n, and of length at most n.
RECURSIVE SeqsOfLen(_, _)
SeqsOfLen(S, n) ==
  IF n = 0 THEN {<<>>}
  ELSE {Append(q, x) : q \in SeqsOfLen(S, n - 1), x \in S}

SeqsUpTo(S, n) == UNION {SeqsOfLen(S, k) : k \in 0 .. n}

\* The parser has reached a point of injection and no call has been made yet.
Parsing == last.op = "none"

\* The state at a point of injection: the parser is in one of the contexts,
\* which earlier errors may have marked invalid.
Init ==
  /\ CurContext \in Contexts
  /\ clones = <<>>
  /\ diags = <<>>
  /\ invalid \in SUBSET {CurContext}
  /\ consumer = <<>>
  /\ evalDepth = 0
  /\ crashed = FALSE
  /\ content = NoMap
  /\ last = Call("none", <<>>, <<>>, TRUE, <<>>)

\* The outcomes of a call: a call that reaches no undefined behaviour has one
\* outcome, any other call has one per outcome of the undefined behaviour.
Outcomes(trap, any) == IF ~trap.s.crashed THEN {trap} ELSE any

\* Sema::ApplySourceCodeModifications(POI, Injections)
ApplySourceCodeModifications ==
  /\ Parsing
  /\ \E Injections \in SeqsUpTo(BatchRequests, MaxBatch) :
    /\ LET Run(ub) == ApplyEach([s |-> Sema(ub), Ok |-> TRUE, attempts |-> <<>>],
                                Injections)
       IN \E acc \in Outcomes(Run("trap"), {Run(ub) : ub \in UBOutcomes}) :
            /\ Becomes(acc.s)
            /\ last' = Call("ApplySourceCodeModifications", Injections,
                            acc.attempts, acc.Ok, <<>>)

\* Sema::ActOnCXXInjectionDecl(Loc, Reflection); the operand is dependent, or
\* reflects II and its evaluation succeeds or not.
ActOnCXXInjectionDecl ==
  /\ Parsing
  /\ \E II \in Requests, dependent \in BOOLEAN, evaluates \in BOOLEAN :
    /\ LET args == <<[II |-> II, dependent |-> dependent, evaluates |-> evaluates]>>
           s == Sema("trap")
       IN IF dependent
          THEN LET D == NumSrc + Len(clones) + 1
                   New == [orig |-> Null, kind |-> "InjectionDecl", owner |-> CurContext,
                           name |-> "", instance |-> FALSE, def |-> "none",
                           body |-> <<>>, access |-> 0, constexpr |-> FALSE,
                           virtual |-> FALSE, pure |-> FALSE, checked |-> FALSE]
               IN /\ Becomes([s EXCEPT !.clones = Append(@, New)])
                  /\ last' = Call("ActOnCXXInjectionDecl", args, <<>>, TRUE, <<D>>)
          ELSE IF II.Injection = Null
          THEN /\ Becomes(Diag(s, "err_reflection_not_a_decl", <<>>))
               /\ last' = Call("ActOnCXXInjectionDecl", args, <<>>, FALSE, <<>>)
          ELSE IF ~evaluates
          THEN /\ Becomes(Diag(s, "err_not_a_reflection", <<>>))
               /\ last' = Call("ActOnCXXInjectionDecl", args, <<>>, FALSE, <<>>)
          ELSE LET Run(ub) == ApplyInjection(Sema(ub), II)
               IN \E t \in Outcomes(Run("trap"), {Run(ub) : ub \in UBOutcomes}) :
                    /\ Becomes(t.s)
                    /\ last' = Call("ActOnCXXInjectionDecl", args, <<t.did>>, t.r,
                                    IF ~t.r THEN <<>> ELSE t.Decls)

\* Sema::InjectBlockStatements
InjectBlockStatements ==
  /\ Parsing
  /\ LET s == Sema("trap")
         ok == isFunctionOrMethod(clones, CurContext)
     IN /\ Becomes(IF ok THEN s ELSE InvalidInjection(s, 0, CurContext))
        /\ last' = Call("InjectBlockStatements", <<>>, <<>>, ok, <<>>)

\* Sema::InjectClassMembers
InjectClassMembers ==
  /\ Parsing
  /\ LET s == Sema("trap")
         ok == isRecord(clones, CurContext)
     IN /\ Becomes(IF ok THEN s ELSE InvalidInjection(s, 1, CurContext))
        /\ last' = Call("InjectClassMembers", <<>>, <<>>, ok, <<>>)

\* Sema::InjectNamespaceMembers
InjectNamespaceMembers ==
  /\ Parsing
  /\ LET s == Sema("trap")
         ok == isFileContext(clones, CurContext)
     IN /\ Becomes(IF ok THEN s ELSE InvalidInjection(s, 2, CurContext))
        /\ last' = Call("InjectNamespaceMembers", <<>>, <<>>, ok, <<>>)

\* Sema::getCurFunctionDecl
getCurFunctionDecl == IF isFunctionOrMethod(clones, CurContext) THEN CurContext ELSE Null

\* Sema::ActOnCXXFragmentCapture(Captures); CurScope is a scope of CurContext.
ActOnCXXFragmentCapture ==
  /\ Parsing
  /\ \E CurScope \in {S \in DOMAIN Scopes : getEntityOf(S) = CurContext} :
       /\ last' = Call("ActOnCXXFragmentCapture",
                       <<[CurScope |-> CurScope, Fn |-> getCurFunctionDecl]>>,
                       <<>>, TRUE,
                       ReferenceCaptures(FindCaptures(CurScope, getCurFunctionDecl, <<>>)))
       /\ UNCHANGED <<CurContext, clones, diags, invalid, consumer, evalDepth, crashed,
                      content>>

\* Sema::ActOnStartCXXFragment(S, Loc, Captures), called with the captures
\* found; S is null when the fragment is not being parsed.
ActOnStartCXXFragment ==
  /\ last.op = "ActOnCXXFragmentCapture"
  /\ \E S \in BOOLEAN :
       LET Fragment == NumSrc + Len(clones) + 1
       IN /\ clones' = CreatePlaceholders(
                         Append(clones, Synthesized("Fragment", CurContext, "")),
                         Fragment, last.group)
          /\ CurContext' = IF S THEN Fragment ELSE CurContext
          /\ last' = Call("ActOnStartCXXFragment",
                          <<[S |-> S, Captures |-> last.group]>>, <<>>, TRUE,
                          <<Fragment>>)
          /\ UNCHANGED <<diags, invalid, consumer, evalDepth, crashed, content>>

\* Sema::ActOnFinishCXXFragment(S, Fragment, Content); Content is the class or
\* namespace made in the fragment since it was started.
ActOnFinishCXXFragment ==
  /\ last.op = "ActOnStartCXXFragment"
  /\ \E Kind \in {"Record", "Namespace"} :
       LET S == last.args[1].S
           FD == last.group[1]
           Content == NumSrc + Len(clones) + 1
       IN /\ clones' = Append(clones, Synthesized(Kind, FD, ""))
          /\ content' = Put(content, FD, Content)
          /\ CurContext' = IF S THEN OwnerOf(clones, CurContext) ELSE CurContext
          /\ last' = Call("ActOnFinishCXXFragment",
                          <<[S |-> S, Fragment |-> FD, Content |-> Content,
                             Captures |-> last.args[1].Captures]>>,
                          <<>>, TRUE, <<FD>>)
          /\ UNCHANGED <<diags, invalid, consumer, evalDepth, crashed>>

\* Sema::ActOnCXXFragmentExpr(Loc, Captures, Fragment), which is
\* BuildCXXFragmentExpr; the reflection of the content is built or not.
BuildCXXFragmentExpr ==
  /\ last.op = "ActOnFinishCXXFragment"
  /\ \E Reflection \in BOOLEAN :
       LET Captures == last.args[1].Captures
           FD == last.args[1].Fragment
           Class == NumSrc + Len(clones) + 1
       IN IF ~Reflection
          THEN /\ last' = Call("BuildCXXFragmentExpr",
                               <<[Captures |-> Captures, Fragment |-> FD]>>,
                               <<>>, FALSE, <<>>)
               /\ UNCHANGED <<CurContext, clones, diags, invalid, consumer, evalDepth,
                              crashed, content>>
          ELSE /\ clones' = clones \o FragmentClassDecls(CurContext, Class,
                                                         FragmentFields(Class, Captures))
               /\ last' = Call("BuildCXXFragmentExpr",
                               <<[Captures |-> Captures, Fragment |-> FD]>>,
                               <<>>, TRUE,
                               <<FragmentExpr(Class, content[FD], Captures, FD)>>)
               /\ UNCHANGED <<CurContext, diags, invalid, consumer, evalDepth, crashed,
                              content>>

\* The classes a metaclass is applied to, and the prototypes it is given.
Classes == {3, 6}

\* Sema::ApplyMetaclass(Meta, ProtoArg, Final, Fields)
ApplyMetaclass ==
  /\ Parsing
  /\ \E Meta \in Metaclasses, ProtoArg \in Classes, Final \in Classes :
       /\ Becomes(ApplyMetaclassInto(Sema("trap"), Meta, ProtoArg, Final))
       /\ last' = Call("ApplyMetaclass",
                       <<[Meta |-> Meta, ProtoArg |-> ProtoArg, Final |-> Final]>>,
                       <<>>, TRUE, <<>>)

Next ==
  \/ ActOnCXXFragmentCapture
  \/ ActOnStartCXXFragment
  \/ ActOnFinishCXXFragment
  \/ BuildCXXFragmentExpr
  \/ ApplyMetaclass
  \/ ApplySourceCodeModifications
  \/ ActOnCXXInjectionDecl
  \/ InjectBlockStatements
  \/ InjectClassMembers
  \/ InjectNamespaceMembers

Spec == Init /\ [][Next]_vars

TypeOK ==
  /\ CurContext \in Contexts \cup {NumSrc + j : j \in DOMAIN clones}
  /\ crashed \in BOOLEAN
  /\ evalDepth \in Nat
  /\ \A i \in DOMAIN clones : clones[i].owner \in 1 .. NumSrc + Len(clones)

(***************************************************************************)
(* Properties.                                                             *)
(***************************************************************************)
Range(q) == {q[i] : i \in DOMAIN q}

\* The calls of ApplyInjection made by the call that returned.
Attempts == IF crashed THEN {} ELSE Range(last.attempts)

\* The call reported a diagnostic, produced a null declaration, or copied
\* nothing.
Failed(a) ==
  \/ a.fn = "none"
  \/ a.g1 > a.g0
  \/ Null \in Range(a.Decls)
  \/ a.fn = "CopyDeclaration" /\ a.Decls = <<>>

\* The call was rejected for the kind of its target.
Rejected(a) == a.g1 > a.g0 /\ diags[a.g0 + 1].id = "err_invalid_injection"

\* The declarations a request asks to inject.
Requested(II) ==
  IF II.Injection = Null THEN {}
  ELSE IF isFragment(II) THEN {D \in 1 .. NumSrc : Ast[D].owner = II.Injection}
  ELSE {II.Injection}

\* The declarations created by the call.
Created(a) == (a.c0 + 1) .. a.c1

\* The source scope of the injector of the call.
SourceScope(a) ==
  IF a.fn = "InjectFragment" THEN a.II.Injection
  ELSE IF a.fn = "CopyDeclaration" /\ isDeclContext(a.II.Injection) THEN a.II.Injection
  ELSE Null

\* C1: ApplySourceCodeModifications returns true if and only if every request
\* of the batch was applied without error.
C1_BatchTrueIffAllApplied ==
  (last.op = "ApplySourceCodeModifications" /\ ~crashed)
    => (last.Ok <=> \A i \in DOMAIN last.attempts : ~Failed(last.attempts[i]))

\* C2: a rejected request does not stop the batch: every request is attempted,
\* in order, the declarations of the valid requests are in the destination
\* context, and the batch reports failure.
C2_BatchContinuesPastRejection ==
  (/\ last.op = "ApplySourceCodeModifications"
   /\ ~crashed
   /\ \E i \in DOMAIN last.attempts : Rejected(last.attempts[i]))
    => /\ Len(last.attempts) = Len(last.args)
       /\ \A i \in DOMAIN last.attempts :
            LET a == last.attempts[i]
            IN /\ a.II = last.args[i]
               /\ a.c0 = (IF i = 1 THEN 0 ELSE last.attempts[i - 1].c1)
               /\ (~Rejected(a))
                    => \A D \in Requested(a.II) \ FailsClone :
                         \E j \in Created(a) :
                           /\ clones[j].orig = D
                           /\ clones[j].owner = CurContext
                           /\ NumSrc + j \in Range(a.Decls)
       /\ last.Ok = FALSE

C2_Witness ==
  /\ last.op = "ApplySourceCodeModifications"
  /\ ~crashed
  /\ Len(last.args) = 3
  /\ Len(last.attempts) = 3
  /\ ~Rejected(last.attempts[1]) /\ Created(last.attempts[1]) # {}
  /\ Rejected(last.attempts[2])
  /\ ~Rejected(last.attempts[3]) /\ Created(last.attempts[3]) # {}
  /\ last.Ok = FALSE

\* C3: ActOnCXXInjectionDecl of a non-dependent operand whose injection
\* succeeds returns the group of the injected declarations, and returns an
\* empty group only when the injection failed.
C3_GroupOfInjectedDecls ==
  (last.op = "ActOnCXXInjectionDecl" /\ ~crashed /\ last.attempts # <<>>)
    => LET a == last.attempts[1]
       IN /\ ~Failed(a) => last.group = a.Decls
          /\ last.group = <<>> => Failed(a)

\* C4: a class fragment injected where the current context is not a class
\* fails with selector 1, clones nothing, registers nothing and leaves
\* the output list empty.
C4_ClassFragmentOutsideClass ==
  \A a \in Attempts :
    (a.fn = "InjectFragment" /\ Ast[a.II.Injection].kind = "Record"
       /\ ~isRecord(clones, CurContext))
      => /\ a.r = FALSE
         /\ a.g1 = a.g0 + 1
         /\ diags[a.g1].id = "err_invalid_injection"
         /\ diags[a.g1].sel[1] = 1
         /\ Created(a) = {}
         /\ a.regs = <<>>
         /\ a.Decls = <<>>

C4_Witness ==
  \E a \in Attempts :
    /\ a.fn = "InjectFragment" /\ Ast[a.II.Injection].kind = "Record"
    /\ ~isRecord(clones, CurContext)
    /\ a.g1 = a.g0 + 1 /\ diags[a.g1].sel = <<1, 2>>

\* The call was a namespace-style injection into a context that is not a
\* namespace or the translation unit.
NamespaceMismatch(a) ==
  /\ ~isFileContext(clones, CurContext)
  /\ \/ a.fn = "InjectFragment" /\ Ast[a.II.Injection].kind = "Namespace"
     \/ a.fn = "CopyDeclaration" /\ isFileContext(clones, Ast[a.II.Injection].owner)

\* C5: every rejection of a namespace-style injection is reported with
\* selector 2.
C5_NamespaceRejectionSelector ==
  /\ \A a \in Attempts :
       NamespaceMismatch(a) => (Rejected(a) /\ diags[a.g0 + 1].sel[1] = 2)
  /\ (last.op = "InjectNamespaceMembers" /\ ~isFileContext(clones, CurContext))
       => (diags # <<>> /\ diags[Len(diags)].sel[1] = 2)

\* The kind of a declaration context: function body, class, or namespace/file.
ContextKind(DC) ==
  IF isFunctionOrMethod(clones, DC) THEN "function"
  ELSE IF isRecord(clones, DC) THEN "class"
  ELSE IF isFileContext(clones, DC) THEN "file"
  ELSE "other"

\* C6: a direct injection is accepted only when the kind of the target context
\* equals the kind of the owner of the declaration; otherwise it is rejected
\* before anything is cloned or registered.
C6_DirectInjectionKindMatch ==
  \A a \in Attempts :
    (a.fn = "CopyDeclaration"
       /\ ContextKind(Ast[a.II.Injection].owner) # ContextKind(CurContext))
      => (Rejected(a) /\ Created(a) = {} /\ a.regs = <<>>)

\* The placeholders of a fragment, in declaration order.
PlaceholdersOf(Fragment) ==
  SelectSeq([D \in 1 .. NumSrc |-> D],
            LAMBDA D : Ast[D].owner = Fragment /\ Ast[D].kind = "Var")

IndexOf(q, x) == CHOOSE i \in DOMAIN q : q[i] = x

\* C7: in the output of the injection of a fragment with captured values V,
\* every reference to the placeholder of capture i is a constant of value V[i]
\* and of the type of field i, and no reference to a placeholder remains.
C7_PlaceholderRoundTrip ==
  \A a \in Attempts :
    (a.fn = "InjectFragment" /\ ~Rejected(a))
      => LET F == Ast[a.II.Injection].owner
             P == PlaceholdersOf(F)
         IN \A j \in Created(a) :
              LET D == clones[j].orig
              IN /\ Len(clones[j].body) = Len(Ast[D].body)
                 /\ \A p \in DOMAIN clones[j].body :
                      LET E == Ast[D].body[p]
                          out == clones[j].body[p]
                      IN /\ E \in Range(P)
                            => /\ out.node = "const"
                               /\ out.value = a.II.Captures[IndexOf(P, E)]
                               /\ out.type = FieldTypes(F)[IndexOf(P, E)]
                         /\ out.node = "ref" => out.decl \notin Range(P)

C7_Witness ==
  \E a \in Attempts :
    /\ a.fn = "InjectFragment" /\ ~Rejected(a)
    /\ a.II.Captures = <<1, 2>>
    /\ \E j \in Created(a) : \E p \in DOMAIN clones[j].body :
         /\ Ast[clones[j].orig].body[p] = 18
         /\ clones[j].body[p] = ConstNode(18, "bool", 2)
    /\ \E j \in Created(a) : \E p \in DOMAIN clones[j].body :
         clones[j].body[p] = ConstNode(17, "int", 1)

\* C8: within one injection no entry of the remap table is replaced once set
\* and no source declaration is cloned a second time.
C8_AtMostOnceCloning ==
  \A a \in Attempts :
    /\ \A i \in DOMAIN a.regs : a.regs[i].old = Null
    /\ \A j, k \in Created(a) : clones[j].orig = clones[k].orig => j = k

\* The declarations of the destination named as D when n declarations had
\* been injected.
Candidates(D, n) == LookupName(SubSeq(clones, 1, n), CurContext, Ast[D].name)

\* The resolution was a lookup in the destination for a sibling of the
\* source scope.
SiblingLookup(a, e) ==
  /\ e.known = Null
  /\ SourceScope(a) # Null
  /\ ~EnclosedBy(Ast[e.d].owner, SourceScope(a))
  /\ Ast[SourceScope(a)].owner = Ast[e.d].owner

\* C9: a referenced declaration resolves to its remap entry if it has one;
\* else to a registered clone if it is inside the source scope; else, if its
\* owner is the parent of the source scope, by name lookup in the destination;
\* else to itself.  With no source scope only the first and last apply.
C9_ResolutionPriority ==
  \A a \in Attempts : \A i \in DOMAIN a.resol :
    LET e == a.resol[i]
        Src == SourceScope(a)
    IN IF e.known # Null THEN e.r = e.known
       ELSE IF Src # Null /\ EnclosedBy(Ast[e.d].owner, Src)
       THEN \/ e.r = Null
            \/ /\ e.r > NumSrc + e.n
               /\ clones[e.r - NumSrc].orig = e.d
               /\ \E k \in DOMAIN a.regs : a.regs[k].key = e.d /\ a.regs[k].new = e.r
       ELSE IF Src # Null /\ Ast[Src].owner = Ast[e.d].owner
       THEN IF Candidates(e.d, e.n) = <<>> THEN e.r = e.d
            ELSE e.r \in Range(Candidates(e.d, e.n))
       ELSE e.r = e.d

C9_Witness ==
  /\ \E a \in Attempts :
       /\ SourceScope(a) # Null
       /\ \E i \in DOMAIN a.resol :
            a.resol[i].known # Null /\ EnclosedBy(Ast[a.resol[i].d].owner, SourceScope(a))
       /\ \E i \in DOMAIN a.resol :
            a.resol[i].known # Null /\ Ast[a.resol[i].d].owner = Ast[SourceScope(a)].owner
       /\ \E i \in DOMAIN a.resol :
            a.resol[i].known = Null /\ IsClone(a.resol[i].r)
              /\ EnclosedBy(Ast[a.resol[i].d].owner, SourceScope(a))
       /\ \E i \in DOMAIN a.resol :
            SiblingLookup(a, a.resol[i]) /\ a.resol[i].r = 4
       /\ \E i \in DOMAIN a.resol :
            a.resol[i].known = Null /\ a.resol[i].d = 14 /\ a.resol[i].r = 14

C9_WitnessNoSourceScope ==
  \E a \in Attempts :
    /\ a.fn = "CopyDeclaration" /\ SourceScope(a) = Null
    /\ \E i \in DOMAIN a.resol :
         /\ a.resol[i].known = Null
         /\ Ast[a.resol[i].d].owner = Ast[a.II.Injection].owner
         /\ a.resol[i].r = a.resol[i].d

\* C10: when the lookup for a sibling finds nothing, a non-instance member
\* resolves to the original and a capture diagnostic is reported; an instance
\* member (a field or an instance method) resolves to no declaration.
C10_FailedLookup ==
  \A a \in Attempts : \A i \in DOMAIN a.resol :
    LET e == a.resol[i]
    IN (SiblingLookup(a, e) /\ Candidates(e.d, e.n) = <<>>)
         => IF Ast[e.d].instance
            THEN e.r = Null
            ELSE /\ e.r = e.d
                 /\ \E g \in (a.g0 + 1) .. a.g1 : diags[g].id = "err_capture_non_static"

\* The call built a declaration from the reflected one: the target was
\* accepted and the injector returned a declaration.
Built(a) == a.fn = "CopyDeclaration" /\ Created(a) # {}

\* The declaration CopyDeclaration built (Result), as it is after the call.
ResultOf(a) == clones[a.c0 + 1]

TraitErrors ==
  {"err_modifies_mem_spec_of_non_member", "err_declration_cannot_be_made_constexpr",
   "err_virtual_non_function", "err_cannot_make_pure_virtual"}

\* The diagnostics about traits reported by the call, in order.
TraitDiags(a) ==
  SelectSeq([g \in 1 .. (a.g1 - a.g0) |-> diags[a.g0 + g].id],
            LAMBDA id : id \in TraitErrors)

\* The misapplications of traits, judged on the declaration built.
AccessBad(a) ==
  a.II.mods.access # 0 /\ ~isRecord(clones, ResultOf(a).owner)

ConstexprBad(a) ==
  a.II.mods.constexpr /\ ResultOf(a).kind \notin {"Var", "Function", "Method"}

VirtualBad(a) ==
  a.II.mods.virtual /\ ResultOf(a).kind \notin {"Method", "Dtor"}

PureBad(a) ==
  /\ a.II.mods.virtual /\ a.II.mods.pure
  /\ ResultOf(a).kind \in {"Method", "Dtor"}
  /\ ResultOf(a).def \in {"defaulted", "deleted", "defined"}

Misapplied(a) == AccessBad(a) \/ ConstexprBad(a) \/ VirtualBad(a) \/ PureBad(a)

\* C11: a request with make_pure and without make_virtual on a method makes
\* CopyDeclaration fail: it returns false with an empty output list, and the
\* declaration has none of the other requested traits (access, constexpr,
\* static rewrite).
C11_PureWithoutVirtualFails ==
  \A a \in Attempts :
    (/\ a.fn = "CopyDeclaration"
     /\ Ast[a.II.Injection].kind \in {"Method", "Dtor"}
     /\ a.II.mods.pure /\ ~a.II.mods.virtual)
      => /\ a.r = FALSE
         /\ a.Decls = <<>>
         /\ \A j \in Created(a) :
              /\ clones[j].access = 0
              /\ ~clones[j].constexpr /\ ~clones[j].checked
              /\ clones[j].instance = Ast[clones[j].orig].instance

C13_MisappliedTraitMarksInvalid ==
  \A a \in Attempts :
    (Built(a) /\ Misapplied(a)) => CurContext \in a.inv1

\* The injection declaration reflects a declaration with make_constexpr and
\* its operand was evaluated.
ConstexprRequested ==
  /\ last.op = "ActOnCXXInjectionDecl"
  /\ ~last.args[1].dependent /\ last.args[1].evaluates
  /\ last.args[1].II.Injection # Null
  /\ ~isFragment(last.args[1].II)
  /\ last.args[1].II.mods.constexpr

\* C19: with make_constexpr the compiler never reaches an invalid state, a
\* variable and a function other than a destructor are marked constexpr and
\* re-validated, and a destructor is rejected with an error.
C19_ConstexprEveryKind ==
  ConstexprRequested
    => /\ ~crashed
       /\ \A a \in Attempts :
            (Built(a) /\ ~AccessBad(a))
              => LET R == ResultOf(a)
                 IN /\ R.kind \in {"Var", "Function", "Method"}
                         => (R.constexpr /\ R.checked)
                    /\ R.kind = "Dtor"
                         => /\ ~R.constexpr
                            /\ TraitDiags(a) = <<"err_declration_cannot_be_made_constexpr">>

OwnMembers(Def) ==
  SelectSeq(DeclsOf(<<>>, Def),
            LAMBDA D : Ast[D].kind # "TemplateTypeParm" /\ D \notin FailsClone)

\* The members of the metaclasses Metas and of their bases: for each
\* metaclass the members of its bases, depth first and in the order the bases
\* are written, then its own.
RECURSIVE MembersBasesFirst(_)
MembersBasesFirst(Metas) ==
  IF Metas = <<>> THEN <<>>
  ELSE MembersBasesFirst(Bases(getDefinition(Head(Metas))))
         \o OwnMembers(getDefinition(Head(Metas)))
         \o MembersBasesFirst(Tail(Metas))

\* C14: ApplyMetaclass injects into the final class the members of the bases,
\* depth first and in base declaration order, before the members of the
\* metaclass itself, and never a prototype parameter.
C14_MetaclassBasesFirst ==
  last.op = "ApplyMetaclass"
    => /\ [j \in DOMAIN clones |-> clones[j].orig]
            = MembersBasesFirst(<<last.args[1].Meta>>)
       /\ \A j \in DOMAIN clones :
            /\ Ast[clones[j].orig].kind # "TemplateTypeParm"
            /\ clones[j].owner = last.args[1].Final

C14_Witness ==
  /\ last.op = "ApplyMetaclass"
  /\ last.args[1].Meta = 44
  /\ [j \in DOMAIN clones |-> clones[j].orig] = <<52, 37, 38, 42, 47, 48>>
  /\ last.args[1].Final \in invalid

\* C15: in the members injected by ApplyMetaclass every reference to a member
\* of a base metaclass refers to the copy of that member injected into the
\* final class.
C15_BaseMemberReferences ==
  last.op = "ApplyMetaclass"
    => \A j \in DOMAIN clones : \A p \in DOMAIN clones[j].body :
         LET E == Ast[clones[j].orig].body[p]
             out == clones[j].body[p].decl
         IN (Ast[E].owner # Ast[clones[j].orig].owner /\ Ast[E].kind # "TemplateTypeParm")
              => /\ IsClone(out)
                 /\ clones[out - NumSrc].orig = E
                 /\ clones[out - NumSrc].owner = last.args[1].Final

\* The scopes from S outwards, innermost first.
RECURSIVE ScopeChain(_)
ScopeChain(S) == IF S = Null THEN <<>> ELSE <<S>> \o ScopeChain(Scopes[S].parent)

\* The local variables and parameters with an initializer declared in S.
Capturable(S) ==
  {D \in Range(Scopes[S].decls) :
     /\ Ast[D].kind \in {"Var", "ParmVar"}
     /\ isFunctionOrMethod(<<>>, Ast[D].owner)
     /\ hasInit(D)}

\* q lists exactly the capturable declarations of the scopes chain[1..n], once
\* each, those of an inner scope before those of an outer scope.
CapturesOf(q, chain, n) ==
  /\ Range(q) = UNION {Capturable(chain[i]) : i \in 1 .. n}
  /\ \A i, j \in DOMAIN q : q[i] = q[j] => i = j
  /\ \A i, j \in DOMAIN q : \A a, b \in 1 .. n :
       (q[i] \in Capturable(chain[a]) /\ q[j] \in Capturable(chain[b]) /\ a < b) => i < j

\* The position in chain of the scope of the function Fn: the length of the
\* chain when there is none.
FunctionScope(chain, Fn) ==
  IF \E i \in DOMAIN chain : Scopes[chain[i]].entity = Fn
  THEN CHOOSE i \in DOMAIN chain : Scopes[chain[i]].entity = Fn
  ELSE Len(chain)

\* The variables of the capture list returned.
CapturedVars == [i \in DOMAIN last.group |-> last.group[i].sub.decl]

\* C16 as stated: the capture list holds the initialized locals of the scopes
\* from the current scope up to, but not including, the scope of the enclosing
\* function, innermost scope first.
C16_CapturesBelowFunctionScope ==
  last.op = "ActOnCXXFragmentCapture"
    => LET chain == ScopeChain(last.args[1].CurScope)
       IN CapturesOf(CapturedVars, chain, FunctionScope(chain, last.args[1].Fn) - 1)

\* C16, amended: the capture list holds the initialized locals and parameters
\* of the scopes from the current scope up to and including the scope of the
\* enclosing function, where the walk stops, innermost scope first; a variable
\* without an initializer is never captured.
C16_CapturesThroughFunctionScope ==
  last.op = "ActOnCXXFragmentCapture"
    => LET chain == ScopeChain(last.args[1].CurScope)
       IN /\ CapturesOf(CapturedVars, chain, FunctionScope(chain, last.args[1].Fn))
          /\ \A i \in DOMAIN CapturedVars : hasInit(CapturedVars[i])

C16_Witness ==
  /\ last.op = "ActOnCXXFragmentCapture"
  /\ last.args[1].CurScope = 4
  /\ CapturedVars = <<58, 55, 54>>

(***************************************************************************)
(* Fragments: placeholders and the fragment expression.                    *)
(***************************************************************************)
\* A fragment has been started, and maybe finished, by the last call.
FragmentStarted == last.op \in {"ActOnStartCXXFragment", "ActOnFinishCXXFragment"}

\* The identifiers of the variables captured, in capture order.
CaptureNames(Captures) ==
  [i \in DOMAIN Captures |-> Ast[GetVariableFromCapture(Captures[i])].name]

\* The placeholders of a fragment: its implicit constexpr variables.
isPlaceholder(D) ==
  /\ KindOf(clones, D) = "Var"
  /\ Node(clones, D).constexpr
  /\ Node(clones, D).orig = Null

CreatedPlaceholders(FD) == SelectSeq(DeclsOf(clones, FD), isPlaceholder)

\* C17: for a fragment started with n captures, the fragment context holds
\* exactly n placeholders, they are its first n declarations, and the i-th
\* placeholder has the identifier of the i-th captured variable; this holds for
\* n = 0 too and still holds after ActOnFinishCXXFragment has bound the content.
C17_PlaceholdersFollowCaptures ==
  FragmentStarted =>
    LET FD == last.group[1]
        Captures == last.args[1].Captures
    IN /\ Len(CreatedPlaceholders(FD)) = Len(Captures)
       /\ SubSeq(DeclsOf(clones, FD), 1, Len(Captures)) = CreatedPlaceholders(FD)
       /\ [i \in DOMAIN CreatedPlaceholders(FD) |-> NameOf(clones, CreatedPlaceholders(FD)[i])]
            = CaptureNames(Captures)
       /\ last.op = "ActOnFinishCXXFragment" =>
            /\ content[FD] \notin {CreatedPlaceholders(FD)[i] : i \in DOMAIN CreatedPlaceholders(FD)}
            /\ OwnerOf(clones, content[FD]) = FD

\* C17 happens: a fragment with the three captures z, v, u has been finished and
\* its content bound, its context holding the three placeholders and the content.
C17_Witness ==
  /\ last.op = "ActOnFinishCXXFragment"
  /\ CaptureNames(last.args[1].Captures) = <<"z", "v", "u">>
  /\ Len(DeclsOf(clones, last.group[1])) = 4
  /\ content[last.group[1]] = DeclsOf(clones, last.group[1])[4]

\* The last call was BuildCXXFragmentExpr and it returned an expression.
FragmentBuilt == last.op = "BuildCXXFragmentExpr" /\ last.Ok

\* The arguments the construction expression passes to the constructor.
ConstructionArgs(E) ==
  IF E.node = "CXXFunctionalCastExpr" THEN E.sub.args ELSE E.args

\* The constructor the construction expression calls.
ConstructionCtor(E) ==
  IF E.node = "CXXFunctionalCastExpr" THEN E.sub.ctor ELSE E.ctor

\* C18: for n captures BuildCXXFragmentExpr synthesizes a type with exactly one
\* base and exactly n fields, field i named from and typed as capture i, and a
\* constructor with exactly n parameters and n + 1 initializers, the base
\* initializer first, with no argument, then field i initialized from
\* parameter i in capture order; the construction expression passes the n
\* captures in the same order, in the cast-style form exactly when n = 1.
C18_FragmentTypeShape ==
  FragmentBuilt =>
    LET Captures == last.args[1].Captures
        n == Len(last.args[1].Captures)
        Class == last.group[1].Class
        Ctor == last.group[1].Class.Ctor
        InitExpr == last.group[1].Init
    IN /\ Len(Class.Bases) = 1
       /\ Class.Bases[1] = [refl |-> content[last.args[1].Fragment]]
       /\ Len(Class.Fields) = n
       /\ \A i \in 1 .. n :
            /\ Class.Fields[i].name = "__captured_" \o Ast[Captures[i].sub.decl].name
            /\ Class.Fields[i].type = getType(Captures[i].sub.decl)
            /\ KindOf(clones, Class.Fields[i].decl) = "Field"
            /\ NameOf(clones, Class.Fields[i].decl) = Class.Fields[i].name
       /\ [i \in 1 .. n |-> Class.Fields[i].decl]
            = SelectSeq(DeclsOf(clones, Class.decl),
                        LAMBDA D : KindOf(clones, D) = "Field")
       /\ Len(Ctor.Parms) = n
       /\ \A i \in 1 .. n :
            /\ Ctor.Parms[i].index = i - 1
            /\ Ctor.Parms[i].type = Captures[i].type
            /\ Ctor.Parms[i].name = "__parm_" \o Ast[Captures[i].sub.decl].name
       /\ Len(Ctor.Inits) = n + 1
       /\ Ctor.Inits[1] = [init |-> "base", target |-> Class.Bases[1], arg |-> <<>>]
       /\ \A i \in 1 .. n :
            Ctor.Inits[i + 1] = [init |-> "member", target |-> Class.Fields[i].decl,
                                 arg |-> <<Ctor.Parms[i].name>>]
       /\ ConstructionArgs(InitExpr) = Captures
       /\ ConstructionCtor(InitExpr) = Ctor.decl
       /\ OwnerOf(clones, Ctor.decl) = Class.decl
       /\ (InitExpr.node = "CXXFunctionalCastExpr") = (n = 1)

\* C18 happens: a fragment expression was built for the single capture u, in the
\* cast-style form, its constructor taking __parm_u for the field __captured_u.
C18_Witness ==
  /\ FragmentBuilt
  /\ CaptureNames(last.args[1].Captures) = <<"u">>
  /\ last.group[1].Init.node = "CXXFunctionalCastExpr"
  /\ Len(last.group[1].Class.Ctor.Inits) = 2
  /\ last.group[1].Class.Fields[1].name = "__captured_u"

(***************************************************************************)
(* Scoped contexts and failed members.                                     *)
(***************************************************************************)
\* This step is a call of an injection operation (InjectFragment or
\* CopyDeclaration through their callers, or ApplyMetaclass) that returned.
InjectionReturned ==
  /\ last.op = "none"
  /\ last'.op \in {"ApplySourceCodeModifications", "ActOnCXXInjectionDecl", "ApplyMetaclass"}
  /\ ~crashed'

\* C21: every scoped context entered by an injection operation has been left
\* when it returns, on every exit path: the depth of the stack of expression
\* evaluation contexts and the current declaration context after InjectFragment,
\* CopyDeclaration (the static rewrite of a field with an in-class initializer
\* included) and ApplyMetaclass are those before the call.
C21_ScopedContextsLeft ==
  [][InjectionReturned => (evalDepth' = evalDepth /\ CurContext' = CurContext)]_vars

\* The part of C21 about the current declaration context.
CurContextRestored == [][InjectionReturned => CurContext' = CurContext]_vars

\* The call went through the loop of InjectFragment.
FragmentInjected(a) == a.fn = "InjectFragment" /\ ~Rejected(a)

\* The members of the fragment of the call, in declaration order.
FragmentMembers(a) == DeclsOf(<<>>, a.II.Injection)

\* A member of the fragment of the call could not be cloned.
MemberFailed(a) ==
  \E i \in DOMAIN FragmentMembers(a) : FragmentMembers(a)[i] \in FailsClone

\* The clones the loop of the call obtained for the members, in the order it
\* obtained them.
MemberClones(a) == SelectSeq(a.Decls, LAMBDA R : R # Null)

\* C22: in InjectFragment a member whose clone fails marks the injectee invalid
\* and does not end the loop: every member that can be cloned, the later ones
\* included, is cloned, in declaration order, and the failure marks no
\* declaration other than the injectee invalid.
C22_FailedMemberMarksInjecteeOnly ==
  \A a \in Attempts :
    FragmentInjected(a) =>
      /\ [i \in DOMAIN MemberClones(a) |-> Node(clones, MemberClones(a)[i]).orig]
           = SelectSeq(FragmentMembers(a), LAMBDA D : D \notin FailsClone)
      /\ MemberFailed(a) =>
           /\ CurContext \in a.inv1
           /\ a.inv1 \ a.inv0 \subseteq {CurContext}

\* C22 happens: the fragment whose first field e cannot be cloned was injected
\* into a class that was valid; the class is now invalid and the later field c
\* was cloned.
C22_Witness ==
  \E a \in Attempts :
    /\ FragmentInjected(a)
    /\ a.II.Injection = 23
    /\ a.inv0 = {}
    /\ a.inv1 = {CurContext}
    /\ [i \in DOMAIN MemberClones(a) |-> Node(clones, MemberClones(a)[i]).orig] = <<25>>

\* C23: the list of injected declarations InjectFragment produces, and every
\* declaration it hands to the consumer of top-level declarations for a
\* namespace fragment, holds only declarations that were cloned: a member whose
\* clone failed is neither appended to the list nor forwarded to the consumer.
C23_OnlyClonedDeclsInOutput ==
  /\ \A a \in Attempts : FragmentInjected(a) => Null \notin Range(a.Decls)
  /\ ~crashed => Null \notin Range(consumer)

\* The part of C23 about the output list.
NoNullInDecls == \A a \in Attempts : FragmentInjected(a) => Null \notin Range(a.Decls)

\* The part of C23 about the consumer.
NoNullToConsumer == ~crashed => Null \notin Range(consumer)

====
